---- MODULE Spec2Model ----
(***************************************************************************)
(* Model of src/app.py: the YouTube transcript fetcher that stores a       *)
(* transcript in a Chroma collection.                                      *)
(*                                                                         *)
(* The model begins where add_transcript_to_collection(url) is called     *)
(* and follows get_youtube_transcript_any one external call at a time.     *)
(* The collection starts empty; what an earlier process left in the        *)
(* persistent store is what earlier calls of the model leave in it.        *)
(*                                                                         *)
(* A text is a sequence of characters.  The characters that matter to the  *)
(* code are a word character "a", the blank " ", the line break "\n", a    *)
(* digit "1" and the SRT arrow ">" (standing for "-->").                   *)
(***************************************************************************)
EXTENDS Integers, Sequences, FiniteSets, TLC

\* ------------------------------------------------------------- bounds
\* The largest number of uuids one run issues (so of entries stored).
MaxDocs == 2
\* The largest number of caption entries / SRT lines / XML children that an
\* external service returns in one answer.
MaxEntries == 2
\* The largest chunk size claim C4 is stated for.
MaxChunk == 2

\* ------------------------------------------------- program constants
VideoIdLen == 11
GetTranscriptLangs == <<"en", "en-US", "en-GB", "hi", "auto">>
FindTranscriptCodes == <<"en", "en-US", "en-GB", "hi">>
TimedtextLangs == <<"en", "en-GB", "en-US", "hi">>
TimedtextUrls == <<"youtube.com/api/timedtext", "video.google.com/timedtext",
                   "youtube.com/api/timedtext&fmt=srv3">>
Patterns == <<"v=", "youtu.be/", "youtube.com/embed/">>

\* ------------------------------------------------------ text helpers
Whitespace == {" ", "\n"}

RECURSIVE LStrip(_)
LStrip(s) ==
    IF s = <<>> THEN s
    ELSE IF Head(s) \in Whitespace THEN LStrip(Tail(s)) ELSE s

RECURSIVE RStrip(_)
RStrip(s) ==
    IF s = <<>> THEN s
    ELSE IF s[Len(s)] \in Whitespace THEN RStrip(SubSeq(s, 1, Len(s) - 1)) ELSE s

\* str.strip()
Strip(s) == RStrip(LStrip(s))

\* sep.join(parts)
RECURSIVE Join(_, _)
Join(parts, sep) ==
    IF parts = <<>> THEN <<>>
    ELSE IF Len(parts) = 1 THEN parts[1]
    ELSE parts[1] \o sep \o Join(Tail(parts), sep)

\* s.replace("\n", " ")
ReplaceNewline(s) == [k \in 1..Len(s) |-> IF s[k] = "\n" THEN " " ELSE s[k]]

\* All sequences over S of length at most n.
SeqsUpTo(S, n) == UNION {[1..k -> S] : k \in 0..n}

\* str.split(): the whitespace-separated tokens of s, given the token cur
\* read so far.
RECURSIVE TokensFrom(_, _)
TokensFrom(s, cur) ==
    IF s = <<>> THEN (IF cur = <<>> THEN <<>> ELSE <<cur>>)
    ELSE IF Head(s) \in Whitespace
         THEN (IF cur = <<>> THEN <<>> ELSE <<cur>>) \o TokensFrom(Tail(s), <<>>)
         ELSE TokensFrom(Tail(s), Append(cur, Head(s)))

Tokens(s) == TokensFrom(s, <<>>)

Min(a, b) == IF a < b THEN a ELSE b

\* The Chunker of the specification: the windows of `size` tokens that start
\* at 0, size-overlap, 2*(size-overlap), ... below the number of tokens, each
\* joined with single blanks.
Windows(tokens, size, overlap) ==
    LET n == Len(tokens)
        stride == size - overlap
        count == (n + stride - 1) \div stride
    IN  [w \in 1..count |->
            Join(SubSeq(tokens, (w - 1) * stride + 1,
                        Min((w - 1) * stride + size, n)), <<" ">>)]

\* ------------------------------------------------------------- URLs
\* A URL is the marker it carries and the number of id characters
\* ([a-zA-Z0-9_-]) that follow the marker.
Urls ==
    { [marker |-> "youtu.be/", idlen |-> VideoIdLen + 1],
      [marker |-> "v=",        idlen |-> VideoIdLen - 1],
      [marker |-> "none",      idlen |-> VideoIdLen] }

NoUrl == [marker |-> "none", idlen |-> 0]
\* Python's None, as a video id and as a return value.
NoVideoId == [marker |-> "none", chars |-> 0]
None == "None"

\* A pattern that accepts one id character too few ({10} for {11}).
PatternMatchesShort(p, url) == url.marker = p /\ url.idlen >= VideoIdLen - 1

\* re.search(p, url): the marker followed by at least 11 id characters.
PatternMatches(p, url) == url.marker = p /\ url.idlen >= VideoIdLen

\* extract_video_id: the first pattern that matches gives the 11 characters
\* after its marker; None when no pattern matches.
extract_video_id(url) ==
    IF \E k \in 1..Len(Patterns) : PatternMatches(Patterns[k], url)
    THEN [marker |-> url.marker, chars |-> VideoIdLen]
    ELSE NoVideoId


\* ------------------------------------------------- external answers
\* entry.get("text", "") of one transcript entry.
EntryTexts == {<<>>, <<" ">>, <<"a">>}
\* What get_transcript and fetch may return.
Transcripts == SeqsUpTo(EntryTexts, MaxEntries)

\* [entry.get("text","") for entry in out if entry.get("text","").strip()]
RECURSIVE NonBlankEntries(_)
NonBlankEntries(out) ==
    IF out = <<>> THEN <<>>
    ELSE (IF Strip(Head(out)) # <<>> THEN <<Head(out)>> ELSE <<>>)
         \o NonBlankEntries(Tail(out))

\* " ".join([... for entry in out if ...])
TranscriptText(out) == Join(NonBlankEntries(out), <<" ">>)

\* The lines of an SRT document (srt.splitlines()): a blank line, a cue
\* number, a time range, a caption.
SrtLines == {<<" ">>, <<"1">>, <<"1", " ", ">", " ", "1">>, <<"a">>}
Srts == SeqsUpTo(SrtLines, MaxEntries)

\* str.isdigit()
IsDigit(s) == s # <<>> /\ \A k \in 1..Len(s) : s[k] = "1"

\* line.strip() and not line.strip().isdigit() and "-->" not in line
IsCaptionLine(line) ==
    /\ Strip(line) # <<>>
    /\ ~IsDigit(Strip(line))
    /\ \A k \in 1..Len(line) : line[k] # ">"

RECURSIVE CaptionLines(_)
CaptionLines(lines) ==
    IF lines = <<>> THEN <<>>
    ELSE (IF IsCaptionLine(Head(lines)) THEN <<Head(lines)>> ELSE <<>>)
         \o CaptionLines(Tail(lines))

\* "\n".join([line for line in srt.splitlines() if ...])
PytubeText(lines) == Join(CaptionLines(lines), <<"\n">>)

\* child.text of a <text> element: None, blanks, or a caption line.
ChildTexts == {<<>>, <<"a", "\n">>}
\* The <text> children of the XML bodies the endpoint may answer with.
XmlBodies == SeqsUpTo(ChildTexts, MaxEntries) \cup {<<<<" ">>>>, <<<<" ">>, <<" ">>>>}
\* A body that is not XML.
RawBodies == {<<" ", "a", " ">>}

\* A response of requests.get: it raised, a status other than 200, a blank
\* body, an XML body, a body that does not parse.
Responses ==
    {[kind |-> k, children |-> <<>>, raw |-> <<>>] : k \in {"exception", "status", "blank"}}
    \cup {[kind |-> "xml", children |-> c, raw |-> <<>>] : c \in XmlBodies}
    \cup {[kind |-> "garbage", children |-> <<>>, raw |-> r] : r \in RawBodies}

\* texts.append(child.text.replace("\n", " ").strip()) for each child whose
\* text is truthy.
RECURSIVE XmlTexts(_)
XmlTexts(children) ==
    IF children = <<>> THEN <<>>
    ELSE (IF Head(children) # <<>>
          THEN <<Strip(ReplaceNewline(Head(children)))>> ELSE <<>>)
         \o XmlTexts(Tail(children))

\* What one pass of the loop of text_from_timedtext_endpoint does with a
\* response: "return" a text, or "continue" with the next URL.
TimedtextStep(resp) ==
    IF resp.kind = "xml" /\ XmlTexts(resp.children) # <<>>
    THEN [do |-> "return", text |-> Join(XmlTexts(resp.children), <<" ">>)]
    ELSE IF resp.kind = "garbage" /\ Strip(resp.raw) # <<>>
    THEN [do |-> "return", text |-> Strip(resp.raw)]
    ELSE [do |-> "continue", text |-> <<>>]

\* ------------------------------------------------------------ state
VARIABLES
    avail,       \* the import-time flags and the shape of YouTubeTranscriptApi
    collection,  \* the Chroma collection: a sequence of entries
    issued,      \* how many uuids uuid.uuid4() has issued
    pc,          \* where the running add_transcript_to_collection call is
    url,         \* its argument
    i,           \* index of the language being tried
    j,           \* index of the timedtext URL being tried
    attempts,    \* the methods entered by get_youtube_transcript_any, in order
    calls,       \* the external calls made by get_youtube_transcript_any
    swallowed,   \* the methods in which an exception was caught and dropped
    result,      \* how get_youtube_transcript_any ended
    before,      \* the collection when the call began
    addLog,      \* the outcome of each collection.add of the call
    ret,         \* what add_transcript_to_collection returned
    shown        \* the st.error message of the call

vars == <<avail, collection, issued, pc, url, i, j, attempts, calls,
          swallowed, result, before, addLog, ret, shown>>

NoCalls == [get |-> 0, list |-> 0, find |-> 0, first |-> 0, pytube |-> 0, http |-> 0]
NoResult == [kind |-> "none", text |-> <<>>, by |-> 0, msg |-> "", diagnostics |-> <<>>]

\* The installations: each library present or not, and which of
\* get_transcript / list_transcripts the class YouTubeTranscriptApi has.
Installs ==
    {a \in [yt : BOOLEAN, hasGet : BOOLEAN, hasList : BOOLEAN,
            pytube : BOOLEAN, requests : BOOLEAN] :
        ~a.yt => (~a.hasGet /\ ~a.hasList)}

Init ==
    /\ avail \in Installs
    /\ collection = <<>>
    /\ issued = 0
    /\ pc = "idle"
    /\ url = NoUrl
    /\ i = 1
    /\ j = 1
    /\ attempts = <<>>
    /\ calls = NoCalls
    /\ swallowed = {}
    /\ result = NoResult
    /\ before = <<>>
    /\ addLog = <<>>
    /\ ret = "none"
    /\ shown = "none"

\* ---------------------------------------- get_youtube_transcript_any
\* pytube passed over whenever requests is installed.
FirstAvailableSkipsPytube(k) ==
    IF k <= 1 /\ avail.yt THEN 1
    ELSE IF k <= 3 /\ avail.requests THEN 3
    ELSE IF k <= 2 /\ avail.pytube THEN 2
    ELSE 4

\* The first method, from k on, whose library is installed; 4 when none is.
FirstAvailable(k) ==
    IF k <= 1 /\ avail.yt THEN 1
    ELSE IF k <= 2 /\ avail.pytube THEN 2
    ELSE IF k <= 3 /\ avail.requests THEN 3
    ELSE 4

\* Where a method begins.
EntryPc(m) ==
    IF m = 1 THEN (IF avail.hasGet THEN "get"
                   ELSE IF avail.hasList THEN "list" ELSE "skip")
    ELSE IF m = 2 THEN "pytube"
    ELSE IF m = 3 THEN "http"
    ELSE "diag"

\* Control falls to method k: the next installed method is entered.
Goto(k, att) ==
    LET m == FirstAvailable(k)
        n == FirstAvailable(2)
    IN  IF m = 1 /\ EntryPc(1) = "skip"
        THEN [pc |-> EntryPc(n),
              att |-> Append(att, 1) \o (IF n < 4 THEN <<n>> ELSE <<>>)]
        ELSE [pc |-> EntryPc(m), att |-> IF m < 4 THEN Append(att, m) ELSE att]

\* A loop that makes one pass too many.
HasNextOneMore(k, xs) == k <= Len(xs)

\* for x in xs: is there a next pass after the k-th?
HasNext(k, xs) == k < Len(xs)

Return(m, text) ==
    /\ result' = [kind |-> "return", text |-> text, by |-> m, msg |-> "",
                  diagnostics |-> <<>>]
    /\ pc' = "fetched"
    /\ UNCHANGED <<i, j, attempts>>

Raise(msg, diagnostics) ==
    /\ result' = [kind |-> "raise", text |-> <<>>, by |-> 0, msg |-> msg,
                  diagnostics |-> diagnostics]
    /\ pc' = "fetched"

FallTo(k) ==
    /\ pc' = Goto(k, attempts).pc
    /\ attempts' = Goto(k, attempts).att
    /\ i' = 1
    /\ j' = 1
    /\ UNCHANGED result

Count(f) == calls' = [calls EXCEPT ![f] = @ + 1]

Frame == UNCHANGED <<avail, collection, issued, url, before, addLog, ret, shown>>

\* add_transcript_to_collection(u) is called; extract_video_id decides.
Call ==
    /\ pc \in {"idle", "done"}
    /\ issued < MaxDocs
    /\ \E u \in Urls :
        /\ url' = u
        /\ IF extract_video_id(u) = NoVideoId
           THEN /\ Raise("Invalid YouTube URL format.", <<>>)
                /\ attempts' = <<>>
                /\ i' = 1
                /\ j' = 1
           ELSE /\ pc' = Goto(1, <<>>).pc
                /\ attempts' = Goto(1, <<>>).att
                /\ result' = NoResult
                /\ i' = 1
                /\ j' = 1
    /\ before' = collection
    /\ calls' = NoCalls
    /\ swallowed' = {}
    /\ addLog' = <<>>
    /\ ret' = "none"
    /\ shown' = "none"
    /\ UNCHANGED <<avail, collection, issued>>

\* After a pass of the get_transcript loop that did not return.
GetContinue ==
    IF HasNext(i, GetTranscriptLangs)
    THEN /\ i' = i + 1
         /\ UNCHANGED <<pc, j, attempts, result>>
    ELSE IF avail.hasList
    THEN /\ pc' = "list"
         /\ i' = 1
         /\ UNCHANGED <<j, attempts, result>>
    ELSE FallTo(2)

\* YouTubeTranscriptApi.get_transcript(video_id, languages=[lang])
GetTranscript ==
    /\ pc = "get"
    /\ Count("get")
    /\ \/ /\ swallowed' = swallowed \cup {1}
          /\ GetContinue
       \/ /\ UNCHANGED swallowed
          /\ \E out \in Transcripts :
                IF out # <<>> THEN Return(1, TranscriptText(out)) ELSE GetContinue
    /\ Frame

\* YouTubeTranscriptApi.list_transcripts(video_id)
ListTranscripts ==
    /\ pc = "list"
    /\ Count("list")
    /\ \/ /\ swallowed' = swallowed \cup {1}
          /\ FallTo(2)
       \/ /\ UNCHANGED swallowed
          /\ pc' = "find"
          /\ i' = 1
          /\ UNCHANGED <<j, attempts, result>>
    /\ Frame

\* tl.find_transcript([code]) and tr.fetch()
FindTranscript ==
    /\ pc = "find"
    /\ Count("find")
    /\ \/ /\ swallowed' = swallowed \cup {1}
          /\ IF HasNext(i, FindTranscriptCodes)
             THEN /\ i' = i + 1
                  /\ UNCHANGED <<pc, j, attempts, result>>
             ELSE /\ pc' = "first"
                  /\ UNCHANGED <<i, j, attempts, result>>
       \/ /\ UNCHANGED swallowed
          /\ \E fetched \in Transcripts : Return(1, TranscriptText(fetched))
    /\ Frame

\* next(iter(tl)) and first_tr.fetch()
FirstTranscript ==
    /\ pc = "first"
    /\ Count("first")
    /\ \/ /\ swallowed' = swallowed \cup {1}
          /\ FallTo(2)
       \/ /\ UNCHANGED swallowed
          /\ \E fetched \in Transcripts : Return(1, TranscriptText(fetched))
    /\ Frame

\* text_from_pytube_captions(url)
Pytube ==
    /\ pc = "pytube"
    /\ Count("pytube")
    /\ \/ /\ swallowed' = swallowed \cup {2}
          /\ FallTo(3)
       \/ /\ UNCHANGED swallowed
          /\ \E srt \in Srts : Return(2, PytubeText(srt))
    /\ Frame

\* After text_from_timedtext_endpoint(video_id, lang) did not give a usable
\* text: the next language, or the end of method 3.
NextLang ==
    IF HasNext(i, TimedtextLangs)
    THEN /\ i' = i + 1
         /\ j' = 1
         /\ UNCHANGED <<pc, attempts, result>>
    ELSE FallTo(4)

\* One requests.get of text_from_timedtext_endpoint, with what follows it.
HttpRequest ==
    /\ pc = "http"
    /\ Count("http")
    /\ \E resp \in Responses :
        LET step == TimedtextStep(resp) IN
        IF step.do = "return"
        THEN IF step.text # <<>> /\ Strip(step.text) # <<>>
             THEN /\ Return(3, step.text)
                  /\ UNCHANGED swallowed
             ELSE /\ NextLang
                  /\ UNCHANGED swallowed
        ELSE IF HasNext(j, TimedtextUrls)
             THEN /\ j' = j + 1
                  /\ swallowed' = IF resp.kind = "exception"
                                  THEN swallowed \cup {3} ELSE swallowed
                  /\ UNCHANGED <<pc, i, attempts, result>>
             ELSE /\ NextLang
                  /\ swallowed' = swallowed \cup {3}
    /\ Frame

\* The three diagnostics of the final error.
DiagnosticItems ==
    << [key |-> "youtube_transcript_api_installed", value |-> avail.yt],
       [key |-> "pytube_installed", value |-> avail.pytube],
       [key |-> "requests_installed", value |-> avail.requests] >>

\* Nothing worked: raise with the diagnostics.
Diagnostics ==
    /\ pc = "diag"
    /\ Raise("Unable to fetch transcript via any method.", DiagnosticItems)
    /\ UNCHANGED <<i, j, attempts, calls, swallowed>>
    /\ Frame

\* ------------------------------------- add_transcript_to_collection
\* The emptiness check left out.
IsEmptyTranscriptUnchecked(text) == FALSE

\* not text or not text.strip()
IsEmptyTranscript(text) == text = <<>> \/ Strip(text) = <<>>

\* A failed fetch that is stored all the same.
BranchStoreOnError(r) == IF IsEmptyTranscript(r.text) /\ r.kind = "return" THEN "empty" ELSE "store"

\* Which way the body of the try goes once the getter has ended.
Branch(r) ==
    IF r.kind = "raise" THEN "error"
    ELSE IF IsEmptyTranscript(r.text) THEN "empty"
    ELSE "store"

\* An id that is the same for every call.
NewDocIdFixed(n) == 1

\* str(uuid.uuid4()): an id never issued before.
NewDocId(n) == n + 1

\* The text stored with its whitespace normalised.
StoredEntriesNormalised(doc_id, text, u) ==
    << [id |-> doc_id, document |-> Join(Tokens(text), <<" ">>),
        metadata |-> [url |-> u]] >>

\* The lists handed to collection.add: documents=[text], ids=[doc_id],
\* metadatas=[{"url": url}].
StoredEntries(doc_id, text, u) ==
    << [id |-> doc_id, document |-> text, metadata |-> [url |-> u]] >>

\* collection.add: it stores the whole batch, or raises and stores nothing.
CollectionAdd(coll, entries, ok) == IF ok THEN coll \o entries ELSE coll

\* Success reported whether or not collection.add raised.
ReturnValueOptimistic(branch, ok) == IF branch = "store" THEN "success" ELSE None

\* The value returned to the caller.
ReturnValue(branch, ok) == IF branch = "store" /\ ok THEN "success" ELSE None

\* The st.error message.
ErrorShown(r, branch, ok) ==
    IF branch = "empty" THEN "Transcript fetched but empty."
    ELSE IF branch = "error" THEN r.msg
    ELSE IF ~ok THEN "collection.add failed"
    ELSE "none"

\* The rest of add_transcript_to_collection, once the getter has ended.
Store ==
    /\ pc = "fetched"
    /\ LET branch == Branch(result) IN
        IF branch = "store"
        THEN \E ok \in BOOLEAN :
                /\ issued' = NewDocId(issued)
                /\ collection' = CollectionAdd(collection,
                                    StoredEntries(NewDocId(issued), result.text, url), ok)
                /\ addLog' = Append(addLog, IF ok THEN "ok" ELSE "raised")
                /\ ret' = ReturnValue(branch, ok)
                /\ shown' = ErrorShown(result, branch, ok)
        ELSE /\ ret' = ReturnValue(branch, FALSE)
             /\ shown' = ErrorShown(result, branch, FALSE)
             /\ UNCHANGED <<issued, collection, addLog>>
    /\ pc' = "done"
    \* the locals of get_youtube_transcript_any are gone
    /\ i' = 1
    /\ j' = 1
    /\ calls' = NoCalls
    /\ swallowed' = {}
    /\ UNCHANGED <<avail, url, attempts, result, before>>

Next ==
    \/ Call
    \/ GetTranscript
    \/ ListTranscripts
    \/ FindTranscript
    \/ FirstTranscript
    \/ Pytube
    \/ HttpRequest
    \/ Diagnostics
    \/ Store

Spec == Init /\ [][Next]_vars

\* A step of get_youtube_transcript_any.
GetterStep ==
    \/ GetTranscript
    \/ ListTranscripts
    \/ FindTranscript
    \/ FirstTranscript
    \/ Pytube
    \/ HttpRequest
    \/ Diagnostics

\* Every external call returns or raises, and the function goes on.
FairSpec == Spec /\ WF_vars(GetterStep) /\ WF_vars(Store)

\* ------------------------------------------------------------ claims
GetterPcs == {"get", "list", "find", "first", "pytube", "http", "diag"}
Ended == pc \in {"fetched", "done"}

\* The entries the call added: what the collection holds beyond `before`.
Added == SubSeq(collection, Len(before) + 1, Len(collection))
KeepsBefore ==
    /\ Len(before) <= Len(collection)
    /\ SubSeq(collection, 1, Len(before)) = before

\* A step of the ingestion failed: the fetch, the empty-text check, the add.
StepFailed ==
    \/ result.kind = "raise"
    \/ Strip(result.text) = <<>>
    \/ \E k \in 1..Len(addLog) : addLog[k] = "raised"

CommittedAdds == Cardinality({k \in 1..Len(addLog) : addLog[k] = "ok"})

\* C1: ingestion is all-or-nothing.  When a call has ended, the collection
\* holds what it held before plus either the whole ingestion (its one entry,
\* written by exactly one add) or nothing; whichever step failed (fetch,
\* empty text, add), nothing was written and no add was committed.
AllOrNothing ==
    pc = "done" =>
        /\ KeepsBefore
        /\ StepFailed => (collection = before /\ CommittedAdds = 0)
        /\ ~StepFailed =>
              /\ Len(Added) = 1
              /\ Added[1].document = result.text
              /\ addLog = <<"ok">>
        /\ (ret = "success") = ~StepFailed

\* A call whose add raised has ended, over a collection that is not empty.
AllOrNothingWitness ==
    /\ pc = "done"
    /\ addLog = <<"raised">>
    /\ before # <<>>
    /\ collection = before

\* C2: a fetched text that is empty or only whitespace is reported as an
\* error, no success is returned, and the collection is left as it was.
EmptyContentRejected ==
    (pc = "done" /\ result.kind = "return" /\ Strip(result.text) = <<>>) =>
        /\ ret = None
        /\ shown = "Transcript fetched but empty."
        /\ collection = before
        /\ addLog = <<>>

EmptyContentWitness ==
    /\ pc = "done"
    /\ result.kind = "return"
    /\ Strip(result.text) = <<>>
    /\ before # <<>>

\* C3: ingestion only appends.  What the collection held when a call began
\* is still there, unchanged and in place; a successful call stores its entry
\* under an id the collection did not hold; no two entries share an id.
AppendOnly ==
    /\ KeepsBefore
    /\ \A m, n \in 1..Len(collection) :
          collection[m].id = collection[n].id => m = n
    /\ (pc = "done" /\ ret = "success") =>
          /\ Len(Added) = 1
          /\ \A k \in 1..Len(before) : before[k].id # Added[1].id

\* The same URL ingested twice: two entries, two ids.
AppendOnlyWitness ==
    /\ pc = "done"
    /\ ret = "success"
    /\ Len(collection) = 2
    /\ collection[1].metadata = collection[2].metadata
    /\ collection[1].document = collection[2].document
    /\ collection[1].id # collection[2].id

Installed == {m \in 1..3 : (m = 1 /\ avail.yt) \/ (m = 2 /\ avail.pytube)
                            \/ (m = 3 /\ avail.requests)}

\* C5: the methods are tried in the order 1, 2, 3, those not installed being
\* skipped: a method is entered only after every installed method before it
\* was entered; once a method returns a transcript no other is entered and
\* the result is that method's; the final error comes only after all of them.
FixedOrder ==
    /\ \A k \in 1..Len(attempts) :
          /\ attempts[k] \in Installed
          /\ \A m \in Installed :
                m < attempts[k] => \E h \in 1..(k - 1) : attempts[h] = m
          /\ \A h \in 1..(k - 1) : attempts[h] < attempts[k]
    /\ result.kind = "return" =>
          /\ attempts # <<>>
          /\ result.by = attempts[Len(attempts)]
    /\ (result.kind = "raise" /\ result.diagnostics # <<>>) =>
          {attempts[k] : k \in 1..Len(attempts)} = Installed

\* All three methods installed, the first two failed, the third returned.
FixedOrderWitness ==
    /\ pc = "fetched"
    /\ result.kind = "return"
    /\ result.by = 3
    /\ attempts = <<1, 2, 3>>
    /\ calls.get > 0
    /\ calls.pytube > 0

\* The key under which the final error would carry a method's own error.
ErrorKey == <<"youtube_transcript_api_error", "pytube_error", "timedtext_error">>

\* C6: when every attempt failed, the final error carries the failure reason
\* of every method in which an error was caught.
AllFailuresReported ==
    (pc = "fetched" /\ result.kind = "raise" /\ attempts # <<>>) =>
        \A m \in swallowed :
            \E k \in 1..Len(result.diagnostics) :
                result.diagnostics[k].key = ErrorKey[m]

\* C7: get_youtube_transcript_any returns a text that is not empty and not
\* only whitespace, or it raises.
NonEmptyOrRaise ==
    Ended =>
        \/ result.kind = "raise" /\ result.msg # ""
        \/ result.kind = "return" /\ Strip(result.text) # <<>>

\* A URL in which an 11-character video id follows one of the markers.
HasVideoId(u) ==
    /\ u.marker \in {"v=", "youtu.be/", "youtube.com/embed/"}
    /\ u.idlen >= 11

\* C8: a URL without an 11-character video id ends the fetch with "Invalid
\* YouTube URL format." before any method is entered or any external call is
\* made, and the enclosing call writes nothing.
InvalidUrlFailsFirst ==
    (pc # "idle" /\ ~HasVideoId(url)) =>
        /\ Ended
        /\ result.kind = "raise"
        /\ result.msg = "Invalid YouTube URL format."
        /\ attempts = <<>>
        /\ calls = NoCalls
        /\ collection = before
        /\ addLog = <<>>
        /\ pc = "done" => ret = None

InvalidUrlWitness ==
    /\ pc = "done"
    /\ ~HasVideoId(url)
    /\ url.marker = "v="
    /\ before # <<>>

\* C9: add_transcript_to_collection ends by returning, and what it returns
\* is true of the store: the success string exactly when one entry was added
\* during the call, None (with an error shown) exactly when nothing was.
TruthfulReturn ==
    pc = "done" =>
        /\ ret \in {"success", None}
        /\ KeepsBefore
        /\ (ret = "success") = (Len(collection) = Len(before) + 1)
        /\ (ret = None) = (collection = before)
        /\ ret = None => shown # "none"

\* collection.add raised: None is returned and nothing was added.
TruthfulReturnWitness ==
    /\ pc = "done"
    /\ ret = None
    /\ addLog = <<"raised">>
    /\ shown = "collection.add failed"

TotalCalls ==
    calls.get + calls.list + calls.find + calls.first + calls.pytube + calls.http

\* The numbers of external calls a run of get_youtube_transcript_any makes
\* stay within 5, 1, 4, 1, 1 and 12; no method is entered twice; while it
\* runs it has a step to take.
AttemptsWithinBounds ==
    /\ calls.get <= 5
    /\ calls.list <= 1
    /\ calls.find <= 4
    /\ calls.first <= 1
    /\ calls.pytube <= 1
    /\ calls.http <= 12
    /\ \A h, k \in 1..Len(attempts) : attempts[h] = attempts[k] => h = k
    /\ pc \in GetterPcs =>
          /\ ENABLED GetterStep
          /\ TotalCalls < 24 \/ pc = "diag"

\* C10: provided every external call returns or raises (FairSpec), a run of
\* get_youtube_transcript_any ends, having made at most 5 get_transcript
\* calls, 4 find_transcript calls and 1 first-transcript call, 1 pytube call
\* and 12 timedtext requests, and having entered each method at most once.
BoundedAttempts ==
    /\ []AttemptsWithinBounds
    /\ (pc \in GetterPcs) ~> Ended

\* Every call that can be made was made, and the getter ended.
BoundedAttemptsWitness ==
    /\ pc = "fetched"
    /\ calls = [get |-> 5, list |-> 1, find |-> 4, first |-> 1,
                 pytube |-> 1, http |-> 12]

====
